---- MODULE Spec2Model ----
(***************************************************************************)
(* Model of the statistics pipeline of rc-metadata-dashboard:              *)
(*   - PublicationStatsAPI.extract_statistics   (publication_stats.py)     *)
(*   - PublicationStatsAPI.fetch_multiple_stats (publication_stats.py)     *)
(*   - PublicationStatsAPI.process_to_dataframes / save_statistics         *)
(*   - load_data: month-axis alignment and download redistribution (app.py)*)
(*   - the session of the dashboard: login form, authenticate_user, logout,*)
(*     and load_data's cache check, st.cache_data and fetch branch (app.py)*)
(*   - ETHResearchCollectionAPI.extract_metadata / fetch_and_save          *)
(*     (api_client.py)                                                     *)
(*   - CredentialManager.encrypt_credentials / decrypt_credentials         *)
(*     (setup_credentials.py)                                              *)
(*                                                                         *)
(* Python values that come out of response.json() are modelled as tagged   *)
(* records [kind, val]; a Python str is a sequence of tokens (words and    *)
(* the whitespace token " "), so that str.split() has something to do.     *)
(* Floating-point numbers are modelled by exact rationals <<num, den>>.    *)
(***************************************************************************)
EXTENDS Integers, Sequences, FiniteSets, TLC

(***************************************************************************)
(* Bounds of the model.                                                    *)
(***************************************************************************)
MaxReports == 3
MaxPoints == 2
MaxViews == 2
MaxPubs == 2
MaxDownloads == 2
MaxSections == 2
MaxCountries == 24
MaxFetches == 2

VARIABLES
    \* extract_statistics, one call
    npc,          \* "idle" | "loop" | "returned" | "raised"
    nstats,       \* the stats dict being built
    ncount,       \* reports consumed by the loop so far
    nexc,         \* the exception that left the call ("none" if none)
    ninputOk,     \* history: every 'views' value read so far was an int >= 0
    ndata,        \* the document the call was made with
    \* load_data, one fetch cycle
    pc,           \* "fetch" | "fetched" | "saved" | "aligned" | "returned" | "raised"
    stats_list,   \* fetch_multiple_stats' all_stats
    df_main,      \* publication_statistics table
    df_monthly,   \* monthly_visits table
    df_countries, \* country_statistics table
    views_pivot,  \* views table: month axis and one row per item
    downloads_pivot, \* synthetic monthly-downloads table
    exc,          \* the exception that left load_data ("none" if none)
    disk,         \* the files of the group's data directory
    fetch_no,     \* the number of the fetch cycle load_data is in
    \* the Streamlit session (app.py)
    session,      \* st.session_state: authenticated, api_key, group_id
    last_login,   \* history: the form input and test response of the last
                  \* login for which authenticate_user returned True
    last_event,   \* history: "none" | "login_ok" | "login_failed" | "logout"
    prev_session, \* history: st.session_state before the last event
    \* load_data's cache check and fetch branch
    clock,        \* time.time()
    mtime,        \* st_mtime of the three cache files
    source,       \* history: the branch the running load_data took:
                  \* "none" | "memo" | "cache" | "fetch" | "fallback" | "failed"
    df_publications, \* the table fetch_and_save returned
    pub_file,     \* ghe-research-collection.csv in the data directory
    caught,       \* the exception caught at `except Exception` ("none" if none)
    memo,         \* the result st.cache_data keeps for load_data(group_id)
    \* fetch_multiple_stats followed by save_statistics, one call
    uuids,        \* the uuids argument
    titles,       \* the titles argument (None if not given)
    fpc,          \* "idle" | "top" | "wait" | "sleep" | "return" | "done"
                  \* | "raised" | "interrupted"
    fi,           \* the loop index i
    in_flight,    \* requests sent and not yet answered
    requests,     \* history: requests sent so far
    delays,       \* history: time.sleep(delay) calls so far
    failed,       \* history: the i whose fetch_publication_stats failed
    extracted,    \* history: the i for which extract_statistics was invoked
    \* CredentialManager (setup_credentials.py)
    key_file,       \* ~/.eth_rc_config/key.key
    encrypted_file, \* ~/.eth_rc_config/credentials.enc
    decrypted,      \* what the last decrypt_credentials call gave
    credentials     \* history: the arguments of the last encrypt_credentials

nvars == <<npc, nstats, ncount, nexc, ninputOk, ndata>>
lvars == <<pc, stats_list, df_main, df_monthly, df_countries, views_pivot,
           downloads_pivot, exc, disk, fetch_no>>
svars == <<session, last_login, last_event, prev_session>>
dvars == <<clock, mtime, source, df_publications, pub_file, caught, memo>>
tvars == <<clock, mtime, source, df_publications, pub_file, caught>>
fvars == <<uuids, titles, fpc, fi, in_flight, requests, delays, failed, extracted>>
cvars == <<key_file, encrypted_file, decrypted, credentials>>
vars == <<npc, nstats, ncount, nexc, ninputOk, ndata, pc, stats_list, df_main,
          df_monthly, df_countries, views_pivot, downloads_pivot, exc, disk,
          fetch_no, session, last_login, last_event, prev_session, clock,
          mtime, source, df_publications, pub_file, caught, memo, uuids, titles, fpc, fi,
          in_flight, requests, delays, failed, extracted, key_file,
          encrypted_file, decrypted, credentials>>

(***************************************************************************)
(* Python values.                                                          *)
(***************************************************************************)
None == [kind |-> "null", val |-> 0]
JInt(n) == [kind |-> "int", val |-> n]
JStr(toks) == [kind |-> "str", val |-> toks]
JList(xs) == [kind |-> "list", val |-> xs]
JDict(f) == [kind |-> "dict", val |-> f]
Str(word) == JStr(<<word>>)
EmptyStr == JStr(<<>>)
EmptyDict == JDict(<<>>)

JEq(a, b) == a.kind = b.kind /\ a.val = b.val

RECURSIVE SeqOfSet(_)
SeqOfSet(S) ==
    IF S = {} THEN <<>>
    ELSE LET e == CHOOSE e \in S : TRUE IN <<e>> \o SeqOfSet(S \ {e})

RECURSIVE ISum(_, _)
ISum(xs, i) == IF i > Len(xs) THEN 0 ELSE xs[i] + ISum(xs, i + 1)

\* bool(v)
Truthy(v) ==
    CASE v.kind = "null" -> FALSE
      [] v.kind = "int" -> v.val # 0
      [] v.kind = "str" -> Len(v.val) > 0
      [] v.kind = "list" -> Len(v.val) > 0
      [] v.kind = "dict" -> DOMAIN v.val # {}

\* dict.get(key, default) on a value that is a dict
Get(d, key, default) ==
    IF key \in DOMAIN d.val THEN d.val[key] ELSE default

\* `for x in v`: the items, or the TypeError of a value that is not iterable
IterItems(v) ==
    CASE v.kind = "list" -> [exc |-> "none", items |-> v.val]
      [] v.kind = "dict" ->
            [exc |-> "none",
             items |-> [i \in 1..Cardinality(DOMAIN v.val) |->
                            Str(SeqOfSet(DOMAIN v.val)[i])]]
      [] v.kind = "str" ->
            [exc |-> "none", items |-> [i \in 1..Len(v.val) |-> Str(v.val[i])]]
      [] OTHER -> [exc |-> "TypeError", items |-> <<>>]

Ok(stats) == [exc |-> "none", stats |-> stats]
Raised(e, stats) == [exc |-> e, stats |-> stats]

(***************************************************************************)
(* extract_statistics                                                      *)
(***************************************************************************)
DefaultStats(uuid) ==
    [uuid |-> uuid,
     total_downloads |-> 0,
     total_visits |-> JInt(0),
     monthly_visits |-> <<>>,
     top_countries |-> <<>>]

\* point.get('values', {}).get('views', 0)
ViewsOf(point) ==
    IF point.kind # "dict" THEN [exc |-> "AttributeError", val |-> None]
    ELSE LET values == Get(point, "values", EmptyDict) IN
         IF values.kind # "dict" THEN [exc |-> "AttributeError", val |-> None]
         ELSE [exc |-> "none", val |-> Get(values, "views", JInt(0))]

\* stats['total_downloads'] += views, for each point
RECURSIVE AddDownloadsNeg(_, _, _)
AddDownloadsNeg(stats, pts, i) ==
    IF i > Len(pts) THEN Ok(stats)
    ELSE LET v == ViewsOf(pts[i]) IN
         IF v.exc # "none" THEN Raised(v.exc, stats)
         ELSE IF v.val.kind # "int" THEN Raised("TypeError", stats)
         ELSE AddDownloadsNeg(
                [stats EXCEPT !.total_downloads = @ - v.val.val], pts, i + 1)

RECURSIVE AddDownloadsLast(_, _, _)
AddDownloadsLast(stats, pts, i) ==
    IF i > Len(pts) THEN Ok(stats)
    ELSE LET v == ViewsOf(pts[i]) IN
         IF v.exc # "none" THEN Raised(v.exc, stats)
         ELSE IF v.val.kind # "int" THEN Raised("TypeError", stats)
         ELSE AddDownloadsLast(
                [stats EXCEPT !.total_downloads = v.val.val], pts, i + 1)

RECURSIVE AddDownloads(_, _, _)
AddDownloads(stats, pts, i) ==
    IF i > Len(pts) THEN Ok(stats)
    ELSE LET v == ViewsOf(pts[i]) IN
         IF v.exc # "none" THEN Raised(v.exc, stats)
         ELSE IF v.val.kind # "int" THEN Raised("TypeError", stats)
         ELSE AddDownloads(
                [stats EXCEPT !.total_downloads = @ + v.val.val], pts, i + 1)

RECURSIVE SetVisitsSum(_, _, _)
SetVisitsSum(stats, pts, i) ==
    IF i > Len(pts) THEN Ok(stats)
    ELSE LET v == ViewsOf(pts[i]) IN
         IF v.exc # "none" THEN Raised(v.exc, stats)
         ELSE SetVisitsSum(
                [stats EXCEPT !.total_visits =
                    IF v.val.kind = "int" /\ @.kind = "int"
                    THEN JInt(@.val + v.val.val) ELSE v.val],
                pts, i + 1)

\* stats['total_visits'] = views, for each point
RECURSIVE SetVisits(_, _, _)
SetVisits(stats, pts, i) ==
    IF i > Len(pts) THEN Ok(stats)
    ELSE LET v == ViewsOf(pts[i]) IN
         IF v.exc # "none" THEN Raised(v.exc, stats)
         ELSE SetVisits([stats EXCEPT !.total_visits = v.val], pts, i + 1)

RECURSIVE MonthlyDataReversed(_, _, _)
MonthlyDataReversed(acc, pts, i) ==
    IF i > Len(pts) THEN [exc |-> "none", rows |-> acc]
    ELSE IF pts[i].kind # "dict" THEN [exc |-> "AttributeError", rows |-> acc]
    ELSE LET v == ViewsOf(pts[i]) IN
         IF v.exc # "none" THEN [exc |-> v.exc, rows |-> acc]
         ELSE MonthlyDataReversed(
                <<[month |-> Get(pts[i], "label", EmptyStr),
                   visits |-> v.val]>> \o acc,
                pts, i + 1)

\* monthly_data.append({'month': ..., 'visits': ...}), for each point
RECURSIVE MonthlyData(_, _, _)
MonthlyData(acc, pts, i) ==
    IF i > Len(pts) THEN [exc |-> "none", rows |-> acc]
    ELSE IF pts[i].kind # "dict" THEN [exc |-> "AttributeError", rows |-> acc]
    ELSE LET v == ViewsOf(pts[i]) IN
         IF v.exc # "none" THEN [exc |-> v.exc, rows |-> acc]
         ELSE MonthlyData(
                Append(acc, [month |-> Get(pts[i], "label", EmptyStr),
                             visits |-> v.val]),
                pts, i + 1)

RECURSIVE SumViewsSkipFirst(_, _, _)
SumViewsSkipFirst(acc, pts, i) ==
    IF i > Len(pts) THEN [exc |-> "none", val |-> acc]
    ELSE LET v == ViewsOf(pts[i]) IN
         IF v.exc # "none" THEN [exc |-> v.exc, val |-> acc]
         ELSE IF v.val.kind # "int" THEN [exc |-> "TypeError", val |-> acc]
         ELSE SumViewsSkipFirst(IF i = 1 THEN acc ELSE acc + v.val.val, pts, i + 1)

\* sum(p.get('values', {}).get('views', 0) for p in points)
RECURSIVE SumViews(_, _, _)
SumViews(acc, pts, i) ==
    IF i > Len(pts) THEN [exc |-> "none", val |-> acc]
    ELSE LET v == ViewsOf(pts[i]) IN
         IF v.exc # "none" THEN [exc |-> v.exc, val |-> acc]
         ELSE IF v.val.kind # "int" THEN [exc |-> "TypeError", val |-> acc]
         ELSE SumViews(acc + v.val.val, pts, i + 1)

RoundDown(n, d) == n \div d

\* n / d rounded to the nearest integer, ties to even (d > 0).  round() works
\* on the double views / total * 100; for every total below 160 the double
\* rounds as the exact quotient does (at 160 it first differs: 23 / 160).
RoundHalfEven(n, d) ==
    LET q == n \div d
        r == n - q * d
    IN IF 2 * r < d THEN q
       ELSE IF 2 * r > d THEN q + 1
       ELSE IF q % 2 = 0 THEN q ELSE q + 1

\* round((views / total * 100) if total > 0 else 0, 2), in hundredths of a percent
Percentage(views, total) ==
    IF total > 0 THEN RoundHalfEven(views * 10000, total) ELSE 0

\* country_data, given that the sum over the points did not raise
CountryData(pts, total) ==
    [i \in 1..Len(pts) |->
        [country_code |-> Get(pts[i], "id", EmptyStr),
         country |-> Get(pts[i], "label", EmptyStr),
         visits |-> ViewsOf(pts[i]).val.val,
         percentage |-> Percentage(ViewsOf(pts[i]).val.val, total)]]

ReportStepElseVisits(stats, report) ==
    IF report.kind # "dict" THEN Raised("AttributeError", stats)
    ELSE
    LET report_type == Get(report, "report-type", EmptyStr)
        points == IterItems(Get(report, "points", JList(<<>>)))
    IN
    IF JEq(report_type, Str("TotalDownloads")) THEN
        IF points.exc # "none" THEN Raised(points.exc, stats)
        ELSE AddDownloads(stats, points.items, 1)
    ELSE IF JEq(report_type, Str("TotalVisitsPerMonth")) THEN
        IF points.exc # "none" THEN Raised(points.exc, stats)
        ELSE LET m == MonthlyData(<<>>, points.items, 1) IN
             IF m.exc # "none" THEN Raised(m.exc, stats)
             ELSE Ok([stats EXCEPT !.monthly_visits = m.rows])
    ELSE IF JEq(report_type, Str("TopCountries")) THEN
        IF points.exc # "none" THEN Raised(points.exc, stats)
        ELSE LET s == SumViews(0, points.items, 1) IN
             IF s.exc # "none" THEN Raised(s.exc, stats)
             ELSE Ok([stats EXCEPT
                        !.top_countries = CountryData(points.items, s.val)])
    ELSE IF points.exc # "none" THEN Raised(points.exc, stats)
         ELSE SetVisits(stats, points.items, 1)

\* the body of `for report in reports`
ReportStep(stats, report) ==
    IF report.kind # "dict" THEN Raised("AttributeError", stats)
    ELSE
    LET report_type == Get(report, "report-type", EmptyStr)
        points == IterItems(Get(report, "points", JList(<<>>)))
    IN
    IF JEq(report_type, Str("TotalDownloads")) THEN
        IF points.exc # "none" THEN Raised(points.exc, stats)
        ELSE AddDownloads(stats, points.items, 1)
    ELSE IF JEq(report_type, Str("TotalVisits")) THEN
        IF points.exc # "none" THEN Raised(points.exc, stats)
        ELSE SetVisits(stats, points.items, 1)
    ELSE IF JEq(report_type, Str("TotalVisitsPerMonth")) THEN
        IF points.exc # "none" THEN Raised(points.exc, stats)
        ELSE LET m == MonthlyData(<<>>, points.items, 1) IN
             IF m.exc # "none" THEN Raised(m.exc, stats)
             ELSE Ok([stats EXCEPT !.monthly_visits = m.rows])
    ELSE IF JEq(report_type, Str("TopCountries")) THEN
        IF points.exc # "none" THEN Raised(points.exc, stats)
        ELSE LET s == SumViews(0, points.items, 1) IN
             IF s.exc # "none" THEN Raised(s.exc, stats)
             ELSE Ok([stats EXCEPT
                        !.top_countries = CountryData(points.items, s.val)])
    ELSE Ok(stats)

\* the head of extract_statistics: "return" (the defaults are returned),
\* "raise", or "loop" over the value of data['_embedded'].get('usagereports', [])
ExtractHead(data) ==
    IF ~Truthy(data) THEN [go |-> "return", exc |-> "none", reports |-> <<>>]
    ELSE IF data.kind = "int"
         THEN [go |-> "raise", exc |-> "TypeError", reports |-> <<>>]
    ELSE IF data.kind = "list" THEN
        IF \E i \in 1..Len(data.val) : JEq(data.val[i], Str("_embedded"))
        THEN [go |-> "raise", exc |-> "TypeError", reports |-> <<>>]
        ELSE [go |-> "return", exc |-> "none", reports |-> <<>>]
    ELSE IF data.kind = "str" THEN
        IF \E i \in 1..Len(data.val) : data.val[i] = "_embedded"
        THEN [go |-> "raise", exc |-> "TypeError", reports |-> <<>>]
        ELSE [go |-> "return", exc |-> "none", reports |-> <<>>]
    ELSE IF "_embedded" \notin DOMAIN data.val
         THEN [go |-> "return", exc |-> "none", reports |-> <<>>]
    ELSE LET embedded == data.val["_embedded"] IN
         IF embedded.kind # "dict"
         THEN [go |-> "raise", exc |-> "AttributeError", reports |-> <<>>]
         ELSE LET reports == IterItems(Get(embedded, "usagereports", JList(<<>>)))
              IN IF reports.exc # "none"
                 THEN [go |-> "raise", exc |-> reports.exc, reports |-> <<>>]
                 ELSE [go |-> "loop", exc |-> "none", reports |-> reports.items]

RECURSIVE ExtractLoop(_, _, _)
ExtractLoop(stats, reports, i) ==
    IF i > Len(reports) THEN Ok(stats)
    ELSE LET r == ReportStep(stats, reports[i]) IN
         IF r.exc # "none" THEN r ELSE ExtractLoop(r.stats, reports, i + 1)

\* extract_statistics(uuid, data): the record returned, or the exception raised
extract_statistics(uuid, data) ==
    LET h == ExtractHead(data) IN
    CASE h.go = "return" -> Ok(DefaultStats(uuid))
      [] h.go = "raise" -> Raised(h.exc, DefaultStats(uuid))
      [] OTHER -> ExtractLoop(DefaultStats(uuid), h.reports, 1)

(***************************************************************************)
(* One call of extract_statistics on a raw usage report.  The elements of  *)
(* the 'usagereports' list are drawn when the loop reaches them.           *)
(***************************************************************************)
Uuid(i) == <<"uuid", i>>

NormUuid == Uuid(1)

SeqsUpTo(S, n) == UNION {[1..k -> S] : k \in 0..n}

NormViews == {None} \cup {JInt(n) : n \in -1..MaxViews}

NormValuesOpts ==
    {<<>>} \cup
    {"values" :> v :
        v \in {None, EmptyDict} \cup {JDict("views" :> x) : x \in NormViews}}

NormLabel ==
    ("label" :> JStr(<<"May", " ", "2025">>)) @@ ("id" :> Str("CH"))

NormPoints ==
    {None, EmptyDict} \cup {JDict(a @@ NormLabel) : a \in NormValuesOpts}

NormPointsOpts ==
    {<<>>, "points" :> None} \cup
    {"points" :> JList(s) : s \in SeqsUpTo(NormPoints, MaxPoints)}

NormTypeOpts ==
    {<<>>} \cup
    {"report-type" :> Str(t) :
        t \in {"TotalDownloads", "TotalVisits", "TotalVisitsPerMonth",
               "TopCountries", "TopCities"}}

NormReports ==
    {None} \cup {JDict(t @@ p) : t \in NormTypeOpts, p \in NormPointsOpts}

\* the document with a 'usagereports' list; the elements of the list are
\* drawn when the loop reaches them
NormListHead == JDict("_embedded" :> JDict("usagereports" :> JList(<<>>)))

\* the raw documents, up to the elements of the 'usagereports' list
NormHeads ==
    {None, EmptyDict, JList(<<None>>), JDict("error" :> Str("x")),
     JDict("_embedded" :> None),
     JDict("_embedded" :> JList(<<>>)),
     JDict("_embedded" :> EmptyDict),
     JDict("_embedded" :> JDict("usagereports" :> None)),
     NormListHead}

\* every 'views' value of the report is an int >= 0
ViewsNonNeg(report) ==
    report.kind = "dict" /\ "points" \in DOMAIN report.val
        /\ report.val["points"].kind = "list" =>
    \A i \in 1..Len(report.val["points"].val) :
        LET p == report.val["points"].val[i] IN
        (p.kind = "dict" /\ "values" \in DOMAIN p.val
            /\ p.val["values"].kind = "dict"
            /\ "views" \in DOMAIN p.val["values"].val) =>
        (p.val["values"].val["views"].kind = "int"
            /\ p.val["values"].val["views"].val >= 0)

NormInit ==
    /\ npc = "idle"
    /\ nstats = DefaultStats(NormUuid)
    /\ ncount = 0
    /\ nexc = "none"
    /\ ninputOk = TRUE
    /\ ndata = None

NormStart ==
    /\ npc = "idle"
    /\ \E data \in NormHeads :
        LET h == ExtractHead(data) IN
        /\ npc' = (CASE h.go = "return" -> "returned"
                     [] h.go = "raise" -> "raised"
                     [] data = NormListHead -> "loop"
                     [] OTHER -> "returned")
        /\ nexc' = h.exc
        /\ ndata' = data
    /\ nstats' = DefaultStats(NormUuid)
    /\ UNCHANGED <<ncount, ninputOk>>
    /\ UNCHANGED <<lvars, svars, dvars, fvars, cvars>>

NormIter ==
    /\ npc = "loop"
    /\ ncount < MaxReports
    /\ \E report \in NormReports :
        LET r == ReportStep(nstats, report) IN
        /\ npc' = IF r.exc = "none" THEN "loop" ELSE "raised"
        /\ nexc' = r.exc
        /\ nstats' = IF r.exc = "none" THEN r.stats ELSE nstats
        /\ ninputOk' = (ninputOk /\ ViewsNonNeg(report))
    /\ ncount' = ncount + 1
    /\ UNCHANGED ndata
    /\ UNCHANGED <<lvars, svars, dvars, fvars, cvars>>

NormReturn ==
    /\ npc = "loop"
    /\ npc' = "returned"
    /\ UNCHANGED <<nstats, ncount, nexc, ninputOk, ndata>>
    /\ UNCHANGED <<lvars, svars, dvars, fvars, cvars>>

(***************************************************************************)
(* One call of extract_statistics on a complete document.                  *)
(***************************************************************************)
Section(type, points) ==
    JDict(("report-type" :> Str(type)) @@ ("points" :> JList(points)))

Document(sections) ==
    JDict("_embedded" :> JDict("usagereports" :> JList(sections)))

\* the 'values' entry of a point: absent, empty, or with a 'views' count
ExtractValuesOpts ==
    {<<>>, "values" :> EmptyDict} \cup
    {"values" :> JDict("views" :> JInt(n)) : n \in 0..MaxViews}

\* the points of the sections that carry one count per file or per item
ExtractPlainPoints ==
    {JDict(a @@ ("label" :> Str("file"))) : a \in ExtractValuesOpts}

ExtractMonthPoints ==
    {JDict(a @@ ("label" :> JStr(<<m, " ", "2025">>))) :
        a \in ExtractValuesOpts, m \in {"March", "May"}}

ExtractCountryPoints ==
    {JDict(a @@ c) :
        a \in ExtractValuesOpts,
        c \in {("id" :> Str("CH")) @@ ("label" :> Str("Switzerland")),
               ("id" :> Str("US")) @@ ("label" :> Str("USA"))}}

ExtractSections ==
    {Section(t, pts) :
        t \in {"TotalDownloads", "TotalVisits", "TopCities"},
        pts \in SeqsUpTo(ExtractPlainPoints, MaxPoints)}
    \cup {Section("TotalVisitsPerMonth", pts) :
            pts \in SeqsUpTo(ExtractMonthPoints, MaxPoints)}
    \cup {Section("TopCountries", pts) :
            pts \in SeqsUpTo(ExtractCountryPoints, MaxPoints)}

\* what fetch_publication_stats hands over: None, or the response's document
ExtractDocs ==
    {None} \cup {Document(s) : s \in SeqsUpTo(ExtractSections, MaxSections)}

\* extract_statistics(uuid, data), from the call to the return
ExtractFrom(documents) ==
    /\ npc = "idle"
    /\ \E data \in documents :
        LET r == extract_statistics(NormUuid, data)
            reports == ExtractHead(data).reports
        IN
        /\ ndata' = data
        /\ nstats' = r.stats
        /\ nexc' = r.exc
        /\ npc' = IF r.exc = "none" THEN "returned" ELSE "raised"
        /\ ncount' = Len(reports)
        /\ ninputOk' = \A i \in 1..Len(reports) : ViewsNonNeg(reports[i])
    /\ UNCHANGED <<lvars, svars, dvars, fvars, cvars>>

ExtractCall == ExtractFrom(ExtractDocs)

(***************************************************************************)
(* One call of extract_statistics on a document with a long TopCountries   *)
(* section.  The source ranks the countries by visits, so a section is     *)
(* given by the number of countries that have each visit count.            *)
(***************************************************************************)
CountryCodes ==
    <<"US", "CH", "DE", "CN", "GB", "FR", "IN", "IT", "NL", "JP", "CA", "ES",
      "AT", "SE", "KR", "AU", "BR", "BE", "RU", "PL", "DK", "NO", "FI", "PT",
      "IE", "TR", "IR", "SG", "TW", "MX", "CZ", "GR", "IL", "HU", "ZA", "NZ">>

\* c[v] times the count v, from the highest count down
RECURSIVE RankedViews(_, _)
RankedViews(c, v) ==
    IF v < 0 THEN <<>> ELSE [i \in 1..c[v] |-> v] \o RankedViews(c, v - 1)

CountrySection(views) ==
    Section("TopCountries",
        [k \in 1..Len(views) |->
            JDict(("id" :> Str(CountryCodes[k])) @@ ("label" :> Str(CountryCodes[k]))
                  @@ ("values" :> JDict("views" :> JInt(views[k]))))])

CountryDocs ==
    {Document(<<CountrySection(RankedViews(c, MaxViews))>>) :
        c \in {c \in [0..MaxViews -> 0..MaxCountries] :
                    ISum([v \in 1..(MaxViews + 1) |-> c[v - 1]], 1) <= MaxCountries}}

ExtractCountries == ExtractFrom(CountryDocs)

(***************************************************************************)
(* Rational numbers <<num, den>>, den > 0, in lowest terms.                *)
(***************************************************************************)
Abs(n) == IF n < 0 THEN -n ELSE n

RECURSIVE GCD(_, _)
GCD(a, b) == IF b = 0 THEN a ELSE GCD(b, a % b)

RNorm(n, d) ==
    LET g == GCD(Abs(n), d) IN <<n \div g, d \div g>>

RInt(n) == <<n, 1>>
RAdd(a, b) == RNorm(a[1] * b[2] + b[1] * a[2], a[2] * b[2])
RMulInt(a, k) == RNorm(a[1] * k, a[2])
\* a / b, b # 0
RDiv(a, b) ==
    IF b[1] > 0 THEN RNorm(a[1] * b[2], a[2] * b[1])
    ELSE RNorm(-(a[1] * b[2]), -(a[2] * b[1]))
\* int(a): truncation towards zero
RTrunc(a) == IF a[1] >= 0 THEN a[1] \div a[2] ELSE -((-a[1]) \div a[2])

RECURSIVE RSum(_, _)
RSum(xs, i) == IF i > Len(xs) THEN RInt(0) ELSE RAdd(xs[i], RSum(xs, i + 1))

(***************************************************************************)
(* fetch_multiple_stats and process_to_dataframes                          *)
(***************************************************************************)
\* all_stats.append(stats) with stats['title'] = title
WithTitle(stats, title) == [title |-> title] @@ stats

\* pd.DataFrame(rows): an empty list of rows gives a table without columns
DataFrame(rows, columns) ==
    [columns |-> IF rows = <<>> THEN {} ELSE columns, rows |-> rows]

MainRows(sl) ==
    [i \in 1..Len(sl) |->
        [uuid |-> sl[i].uuid,
         title |-> sl[i].title,
         total_downloads |-> sl[i].total_downloads,
         total_visits |-> sl[i].total_visits,
         num_months_with_data |-> Len(sl[i].monthly_visits),
         num_countries |-> Len(sl[i].top_countries)]]

RECURSIVE MonthlyRowsFirstOnly(_, _)
MonthlyRowsFirstOnly(sl, i) ==
    IF i > Len(sl) THEN <<>>
    ELSE [j \in 1..(IF sl[i].monthly_visits = <<>> THEN 0 ELSE 1) |->
            [uuid |-> sl[i].uuid,
             title |-> sl[i].title,
             month |-> sl[i].monthly_visits[j].month,
             visits |-> sl[i].monthly_visits[j].visits]]
         \o MonthlyRowsFirstOnly(sl, i + 1)

RECURSIVE MonthlyRows(_, _)
MonthlyRows(sl, i) ==
    IF i > Len(sl) THEN <<>>
    ELSE [j \in 1..Len(sl[i].monthly_visits) |->
            [uuid |-> sl[i].uuid,
             title |-> sl[i].title,
             month |-> sl[i].monthly_visits[j].month,
             visits |-> sl[i].monthly_visits[j].visits]]
         \o MonthlyRows(sl, i + 1)

RECURSIVE CountryRows(_, _)
CountryRows(sl, i) ==
    IF i > Len(sl) THEN <<>>
    ELSE [j \in 1..Len(sl[i].top_countries) |->
            [uuid |-> sl[i].uuid,
             title |-> sl[i].title,
             country_code |-> sl[i].top_countries[j].country_code,
             country |-> sl[i].top_countries[j].country,
             visits |-> sl[i].top_countries[j].visits]]
         \o CountryRows(sl, i + 1)

process_to_dataframes(sl) ==
    [main |-> DataFrame(MainRows(sl),
                {"uuid", "title", "total_downloads", "total_visits",
                 "num_months_with_data", "num_countries"}),
     monthly |-> DataFrame(MonthlyRows(sl, 1),
                {"uuid", "title", "month", "visits"}),
     countries |-> DataFrame(CountryRows(sl, 1),
                {"uuid", "title", "country_code", "country", "visits"})]

(***************************************************************************)
(* load_data: month-axis alignment                                         *)
(***************************************************************************)
month_map ==
    [m \in {"January", "February", "March", "April", "May", "June", "July",
            "August", "September", "October", "November", "December"} |->
        CASE m = "January" -> "01" [] m = "February" -> "02"
          [] m = "March" -> "03" [] m = "April" -> "04"
          [] m = "May" -> "05" [] m = "June" -> "06"
          [] m = "July" -> "07" [] m = "August" -> "08"
          [] m = "September" -> "09" [] m = "October" -> "10"
          [] m = "November" -> "11" [] m = "December" -> "12"]

\* x.split(): the words of x, without the whitespace between them
Split(x) == SelectSeq(x.val, LAMBDA t : t # " ")

\* f"{x.split()[1]}-{month_map[x.split()[0]]}": the key <<year, month>>,
\* which stands for the string year-month, or the exception raised
MonthYear(x) ==
    IF x.kind # "str" THEN [exc |-> "AttributeError", key |-> <<>>]
    ELSE IF Len(Split(x)) < 2 THEN [exc |-> "IndexError", key |-> <<>>]
    ELSE IF Split(x)[1] \notin DOMAIN month_map
         THEN [exc |-> "KeyError", key |-> <<>>]
    ELSE [exc |-> "none", key |-> <<Split(x)[2], month_map[Split(x)[1]]>>]

\* The words the model's labels use, in the order Python compares str
TokenOrder ==
    <<"01", "02", "03", "04", "05", "06", "07", "08", "09", "10", "11", "12",
      "2025", "2026", "abc">>

TokenRank(t) == CHOOSE i \in 1..Len(TokenOrder) : TokenOrder[i] = t

\* k1 <= k2 as the strings year-month
KeyLeq(k1, k2) ==
    \/ TokenRank(k1[1]) < TokenRank(k2[1])
    \/ k1[1] = k2[1] /\ TokenRank(k1[2]) <= TokenRank(k2[2])

\* the columns of the pivot table, sorted
RECURSIVE SortKeys(_)
SortKeys(S) ==
    IF S = {} THEN <<>>
    ELSE LET m == CHOOSE m \in S : \A o \in S : KeyLeq(m, o)
         IN <<m>> \o SortKeys(S \ {m})

\* aggfunc = mean over the rows of one (title, month_year) group; fill_value = 0
PivotCell(rows, keys, item, key) ==
    LET idx == {i \in 1..Len(rows) : rows[i].title = item /\ keys[i] = key}
    IN IF idx = {} THEN RInt(0)
       ELSE RNorm(ISum([j \in 1..Cardinality(idx) |->
                         rows[SeqOfSet(idx)[j]].visits.val], 1),
                  Cardinality(idx))

\* monthly_visits.pivot_table(index='title', columns='month_year',
\*                            values='visits', fill_value=0)
PivotTable(rows, keys) ==
    LET axis == SortKeys({keys[i] : i \in 1..Len(keys)})
        items == {rows[i].title : i \in 1..Len(rows)}
    IN [axis |-> axis,
        rows |-> [item \in items |->
                    [j \in 1..Len(axis) |-> PivotCell(rows, keys, item, axis[j])]]]

\* lines 174-194: the views table, or the exception raised
AlignMonths(monthly) ==
    IF "month" \notin monthly.columns
    THEN [exc |-> "KeyError", views |-> <<>>]
    ELSE LET parsed == [i \in 1..Len(monthly.rows) |->
                            MonthYear(monthly.rows[i].month)]
             bad == {i \in 1..Len(parsed) : parsed[i].exc # "none"}
         IN IF bad # {}
            THEN [exc |-> parsed[CHOOSE i \in bad : \A j \in bad : i <= j].exc,
                  views |-> <<>>]
            ELSE [exc |-> "none",
                  views |-> PivotTable(monthly.rows,
                                [i \in 1..Len(parsed) |-> parsed[i].key])]

(***************************************************************************)
(* load_data: redistribution of the total downloads                        *)
(***************************************************************************)
\* dict(zip(publication_stats['title'], publication_stats['total_downloads']))
downloads_map(main) ==
    [t \in {main.rows[i].title : i \in 1..Len(main.rows)} |->
        main.rows[CHOOSE i \in 1..Len(main.rows) :
                    /\ main.rows[i].title = t
                    /\ \A j \in 1..Len(main.rows) :
                            main.rows[j].title = t => j <= i].total_downloads]

\* downloads_map.get(item_name, 0)
TotalDownloadsOf(main, item) ==
    IF item \in DOMAIN downloads_map(main) THEN downloads_map(main)[item] ELSE 0

\* the body of the loop over the rows of downloads_pivot.  The doubles of
\* the code are exact rationals here: on every row within the bounds of this
\* model (at most two month columns) int() of the double result equals the
\* truncation of the exact quotient; outside them the double can fall just
\* below an integer, e.g. int((29 / 100) * 100) = 28.
RedistributeRowNoZeroCase(item_views, total_downloads) ==
    LET total_views == RSum(item_views, 1) IN
    IF total_views[1] > 0
    THEN [i \in 1..Len(item_views) |->
            RTrunc(RMulInt(RDiv(item_views[i], total_views), total_downloads))]
    ELSE [i \in 1..Len(item_views) |-> total_downloads]

RedistributeRowSentinel(item_views, total_downloads) ==
    LET total_views == RSum(item_views, 1) IN
    IF total_views[1] > 0
    THEN [i \in 1..Len(item_views) |->
            RTrunc(RMulInt(RDiv(item_views[i], total_views), total_downloads))]
    ELSE [i \in 1..Len(item_views) |-> -1]

RedistributeRow(item_views, total_downloads) ==
    LET total_views == RSum(item_views, 1) IN
    IF total_views[1] > 0
    THEN [i \in 1..Len(item_views) |->
            RTrunc(RMulInt(RDiv(item_views[i], total_views), total_downloads))]
    ELSE [i \in 1..Len(item_views) |-> 0]

\* lines 196-218
Redistribute(views, main) ==
    [axis |-> views.axis,
     rows |-> [item \in DOMAIN views.rows |->
                RedistributeRow(views.rows[item], TotalDownloadsOf(main, item))]]

(***************************************************************************)
(* One fetch cycle of load_data.  The uuids and titles of the publications *)
(* are drawn when the loop of fetch_multiple_stats reaches them.           *)
(***************************************************************************)
Titles == {"A", "B"}


Label(month, year) == JStr(<<month, " ", year>>)

LoadLabels == {Label("March", "2025"), Label("January", "2026")}

AllLabels ==
    LoadLabels \cup
    {EmptyStr, Str("May"), Label("Foo", "2025"), Label("May", "abc")}

Point(label, views) ==
    JDict(("label" :> label) @@ ("values" :> JDict("views" :> JInt(views))))

\* a usage report with a TotalDownloads and a TotalVisitsPerMonth section
UsageReport(total, points) ==
    Document(<<Section("TotalDownloads", <<Point(EmptyStr, total)>>),
               Section("TotalVisitsPerMonth", points)>>)

\* what fetch_publication_stats returns: None, or the response's document
LoadData ==
    {None} \cup
    {UsageReport(t, pts) :
        t \in 0..MaxDownloads,
        pts \in SeqsUpTo({Point(l, v) : l \in LoadLabels, v \in 0..MaxViews},
                         MaxPoints)}

\* the months and the countries a usage report lists, first to last
FlattenMonths ==
    <<Label("March", "2025"), Label("January", "2026"), Label("May", "2025")>>

FlattenCountries == <<"CH", "US", "DE">>

\* usage reports with a TotalDownloads, a TotalVisitsPerMonth section of m
\* points and a TopCountries section of c points
FlattenData ==
    {None} \cup
    {Document(<<Section("TotalDownloads", <<Point(EmptyStr, 1)>>),
                Section("TotalVisitsPerMonth",
                    [k \in 1..m |-> Point(FlattenMonths[k], k)]),
                Section("TopCountries",
                    [k \in 1..c |->
                        JDict(("id" :> Str(FlattenCountries[k]))
                              @@ ("label" :> Str(FlattenCountries[k]))
                              @@ ("values" :> JDict("views" :> JInt(k))))])>>) :
        m \in 0..MaxPoints, c \in 0..MaxPoints}

\* usage reports whose counts are whatever integers the source sends
SignedData ==
    {UsageReport(t, pts) :
        t \in -1..MaxDownloads,
        pts \in SeqsUpTo({Point(l, v) : l \in LoadLabels, v \in -1..MaxViews},
                         MaxPoints)}

LabelData ==
    {UsageReport(1, pts) :
        pts \in SeqsUpTo({Point(l, 1) : l \in AllLabels}, MaxPoints)}

\* a file that does not exist
Absent == [fetch |-> 0, table |-> <<>>]

\* a file written by to_csv / json.dump in fetch cycle n
File(n, table) == [fetch |-> n, table |-> table]

\* the data directory before the first fetch
EmptyDisk ==
    [main |-> Absent, monthly |-> Absent, countries |-> Absent, raw |-> Absent]

LoadInit ==
    /\ pc = "fetch"
    /\ stats_list = <<>>
    /\ df_main = <<>>
    /\ df_monthly = <<>>
    /\ df_countries = <<>>
    /\ views_pivot = <<>>
    /\ downloads_pivot = <<>>
    /\ exc = "none"
    /\ disk = EmptyDisk
    /\ fetch_no = 1

\* a key of st.session_state that was never set
Unset == [kind |-> "unset", val |-> 0]

\* a new browser session; check_authentication has set the flag to False
SessionInit ==
    /\ session = [authenticated |-> FALSE, api_key |-> Unset, group_id |-> Unset]
    /\ last_login = Unset
    /\ last_event = "none"
    /\ prev_session = session

\* no table
NoTable == [columns |-> {}, rows |-> <<>>]

\* st.cache_data holds no result
NoMemo == [at |-> -1, views |-> <<>>, downloads |-> <<>>, countries |-> <<>>]

CacheInit ==
    /\ memo = NoMemo
    /\ clock = 0
    /\ mtime = [main |-> 0, monthly |-> 0, countries |-> 0]
    /\ source = "none"
    /\ df_publications = NoTable
    /\ pub_file = Absent
    /\ caught = "none"

FetchInit ==
    /\ uuids = <<>>
    /\ titles = None
    /\ fpc = "idle"
    /\ fi = 0
    /\ in_flight = 0
    /\ requests = 0
    /\ delays = 0
    /\ failed = {}
    /\ extracted = {}

\* decrypt_credentials was not called
NotDecrypted ==
    [called |-> FALSE, exc |-> "none", api_key |-> None, group_id |-> None]

CredInit ==
    /\ key_file = Absent
    /\ encrypted_file = Absent
    /\ decrypted = NotDecrypted
    /\ credentials = <<None, None>>

Init == NormInit /\ LoadInit /\ SessionInit /\ CacheInit /\ FetchInit /\ CredInit

\* one iteration of the loop of fetch_multiple_stats
FetchFrom(names, documents) ==
    /\ pc = "fetch"
    /\ Len(stats_list) < MaxPubs
    /\ \E title \in names, data \in documents :
        LET r == extract_statistics(Uuid(Len(stats_list) + 1), data) IN
        IF r.exc = "none"
        THEN /\ stats_list' = Append(stats_list, WithTitle(r.stats, title))
             /\ UNCHANGED <<pc, exc>>
        ELSE /\ pc' = "raised"
             /\ exc' = r.exc
             /\ UNCHANGED stats_list
    /\ UNCHANGED <<df_main, df_monthly, df_countries, views_pivot,
                   downloads_pivot, disk, fetch_no>>
    /\ UNCHANGED <<nvars, svars, dvars, fvars, cvars>>

FetchOne == FetchFrom(Titles, LoadData)

FetchOneLabel == FetchFrom({"A"}, LabelData)

FetchOneFlat == FetchFrom(Titles, FlattenData)

FetchOneSigned == FetchFrom({"A"}, SignedData)

FetchOneCycle == FetchFrom({"A"}, FlattenData)

\* the files after save_statistics: the totals table and the raw records are
\* always written, the monthly and the country table only when not empty
save_statistics(files, n, sl) ==
    LET df == process_to_dataframes(sl) IN
    [main |-> File(n, df.main),
     monthly |-> IF df.monthly.rows # <<>> THEN File(n, df.monthly)
                 ELSE files.monthly,
     countries |-> IF df.countries.rows # <<>> THEN File(n, df.countries)
                   ELSE files.countries,
     raw |-> File(n, sl)]

\* fetch_multiple_stats returns and save_statistics builds the three tables
\* and writes the files
SaveStatistics ==
    /\ pc = "fetch"
    /\ pc' = "saved"
    /\ df_main' = process_to_dataframes(stats_list).main
    /\ df_monthly' = process_to_dataframes(stats_list).monthly
    /\ df_countries' = process_to_dataframes(stats_list).countries
    /\ disk' = save_statistics(disk, fetch_no, stats_list)
    /\ UNCHANGED <<stats_list, views_pivot, downloads_pivot, exc, fetch_no>>
    /\ UNCHANGED <<nvars, svars, dvars, fvars, cvars>>

\* load_data from the month conversion to its return; st.cache_data keeps
\* the returned tables
LoadDataTail ==
    /\ pc = "saved"
    /\ LET a == AlignMonths(df_monthly) IN
        IF a.exc = "none"
        THEN /\ pc' = "returned"
             /\ views_pivot' = a.views
             /\ downloads_pivot' = Redistribute(a.views, df_main)
             /\ memo' = [at |-> clock, views |-> a.views,
                         downloads |-> Redistribute(a.views, df_main),
                         countries |-> df_countries]
             /\ UNCHANGED exc
        ELSE /\ pc' = "raised"
             /\ exc' = a.exc
             /\ UNCHANGED <<views_pivot, downloads_pivot, memo>>
    /\ UNCHANGED <<stats_list, df_main, df_monthly, df_countries, disk, fetch_no>>
    /\ UNCHANGED <<nvars, svars, tvars, fvars, cvars>>

\* load_data is called again when st.cache_data holds no result any more and
\* does not use the cache files (one is missing or older than an hour): a new
\* fetch cycle starts on the files the earlier cycles left
Refetch ==
    /\ pc \in {"returned", "raised"}
    /\ fetch_no < MaxFetches
    /\ pc' = "fetch"
    /\ fetch_no' = fetch_no + 1
    /\ stats_list' = <<>>
    /\ df_main' = <<>>
    /\ df_monthly' = <<>>
    /\ df_countries' = <<>>
    /\ views_pivot' = <<>>
    /\ downloads_pivot' = <<>>
    /\ exc' = "none"
    /\ memo' = NoMemo
    /\ UNCHANGED disk
    /\ UNCHANGED <<nvars, svars, tvars, fvars, cvars>>

(***************************************************************************)
(* The Streamlit session: the login form, authenticate_user and logout.    *)
(* A str typed into the form is the sequence of its characters.            *)
(***************************************************************************)
Digits == {"0", "1", "2", "3", "4", "5", "6", "7", "8", "9"}

\* g.isdigit()
IsDigit(g) == Len(g.val) > 0 /\ \A i \in 1..Len(g.val) : g.val[i] \in Digits

\* requests.get / raise_for_status raised
RequestFailure == [kind |-> "error", val |-> "RequestException"]

LoggedOut == [authenticated |-> FALSE, api_key |-> None, group_id |-> None]

authenticate_userNoTestData(sess, api_key, group_id, response) ==
    IF Truthy(api_key) /\ Truthy(group_id) /\ Len(group_id.val) = 5
        /\ IsDigit(group_id)
    THEN IF response.kind = "error" THEN [session |-> sess, ok |-> FALSE]
         ELSE [session |-> [authenticated |-> TRUE, api_key |-> api_key,
                            group_id |-> group_id],
               ok |-> TRUE]
    ELSE [session |-> sess, ok |-> FALSE]

authenticate_userStoresFirst(sess, api_key, group_id, response) ==
    IF Truthy(api_key) /\ Truthy(group_id) /\ Len(group_id.val) = 5
        /\ IsDigit(group_id)
    THEN IF response.kind = "error"
         THEN [session |-> [sess EXCEPT !.api_key = api_key,
                                        !.group_id = group_id],
               ok |-> FALSE]
         ELSE IF Truthy(response)
         THEN [session |-> [authenticated |-> TRUE, api_key |-> api_key,
                            group_id |-> group_id],
               ok |-> TRUE]
         ELSE [session |-> [sess EXCEPT !.api_key = api_key,
                                        !.group_id = group_id],
               ok |-> FALSE]
    ELSE [session |-> sess, ok |-> FALSE]

\* authenticate_user(api_key, group_id) when the test request gives response:
\* the session afterwards and the value returned
authenticate_user(sess, api_key, group_id, response) ==
    IF Truthy(api_key) /\ Truthy(group_id) /\ Len(group_id.val) = 5
        /\ IsDigit(group_id)
    THEN IF response.kind = "error" THEN [session |-> sess, ok |-> FALSE]
         ELSE IF Truthy(response)
         THEN [session |-> [authenticated |-> TRUE, api_key |-> api_key,
                            group_id |-> group_id],
               ok |-> TRUE]
         ELSE [session |-> sess, ok |-> FALSE]
    ELSE [session |-> sess, ok |-> FALSE]

\* the submitted form: its checks, then authenticate_user
SubmitForm(sess, api_key, group_id, response) ==
    IF ~Truthy(api_key) THEN [session |-> sess, ok |-> FALSE]
    ELSE IF ~Truthy(group_id) THEN [session |-> sess, ok |-> FALSE]
    ELSE IF Len(group_id.val) # 5 \/ ~IsDigit(group_id)
         THEN [session |-> sess, ok |-> FALSE]
    ELSE authenticate_user(sess, api_key, group_id, response)

\* the script gets past the form and st.stop() to the dashboard body
BodyRuns(sess) == sess.authenticated

ApiKeys == {EmptyStr, Str("key1"), Str("key2")}

\* the model has one group, 12345
GroupIds ==
    {EmptyStr, JStr(<<"1", "2", "3", "4">>), JStr(<<"1", "2", "3", "4", "5">>),
     JStr(<<"a", "b", "c", "d", "e">>), JStr(<<"1", "2", "3", "4", "5", "6">>)}

\* what fetch_publications(max_items=1) gives for the test request
TestResponses == {RequestFailure, EmptyDict, JDict("_embedded" :> EmptyDict)}

\* the form is submitted (it is shown while the session is not authenticated)
Login ==
    /\ pc = "idle"
    /\ ~BodyRuns(session)
    /\ \E api_key \in ApiKeys, group_id \in GroupIds, response \in TestResponses :
        LET r == SubmitForm(session, api_key, group_id, response) IN
        /\ session' = r.session
        /\ last_event' = IF r.ok THEN "login_ok" ELSE "login_failed"
        /\ last_login' = IF r.ok
                         THEN [api_key |-> api_key, group_id |-> group_id,
                               test_data |-> response]
                         ELSE last_login
    /\ prev_session' = session
    /\ UNCHANGED <<nvars, lvars, dvars, fvars, cvars>>

\* the Logout button of the sidebar, st.cache_data.clear() included
Logout ==
    /\ pc = "idle"
    /\ BodyRuns(session)
    /\ session' = LoggedOut
    /\ last_event' = "logout"
    /\ prev_session' = session
    /\ UNCHANGED last_login
    /\ memo' = NoMemo
    /\ UNCHANGED <<nvars, lvars, tvars, fvars, cvars>>

(***************************************************************************)
(* load_data: the cache check, the cached read and the fetch branch.       *)
(***************************************************************************)
FreshnessWindow == 3600

CacheTtl == 3600

\* st.cache_data(ttl=3600) still holds a result of load_data for the group
MemoValid(m, now) == m # NoMemo /\ now - m.at < CacheTtl

cache_files == {"monthly", "main", "countries"}

\* all(f.exists() for f in cache_files)
AllExist(files) == \A f \in cache_files : files[f] # Absent

\* min(f.stat().st_mtime for f in cache_files)
OldestTime(times) ==
    CHOOSE t \in {times[f] : f \in cache_files} :
        \A f \in cache_files : t <= times[f]

\* use_cache after lines 118-123
UseCache(files, times, now) ==
    AllExist(files) /\ ~(now - OldestTime(times) > FreshnessWindow)

\* pd.read_csv reads an empty cell as NaN
ReadCell(v) == IF v.kind = "str" /\ v.val = <<>> THEN None ELSE v

\* pd.read_csv(file): a file written from a table without columns has no
\* header line and raises EmptyDataError; the cells of the text columns of
\* the record are read back
read_csv(file) ==
    IF file.table.columns = {}
    THEN [exc |-> "EmptyDataError", table |-> NoTable]
    ELSE [exc |-> "none",
          table |->
            [columns |-> file.table.columns,
             rows |-> [i \in 1..Len(file.table.rows) |->
                        [c \in DOMAIN file.table.rows[i] |->
                            IF c \in {"month", "country_code", "country"}
                            THEN ReadCell(file.table.rows[i][c])
                            ELSE file.table.rows[i][c]]]]]

\* the three read_csv calls, in the order of the code
ReadCache(files) ==
    LET m == read_csv(files.monthly)
        p == read_csv(files.main)
        c == read_csv(files.countries)
        e == IF m.exc # "none" THEN m.exc
             ELSE IF p.exc # "none" THEN p.exc ELSE c.exc
    IN [exc |-> e, monthly |-> m.table, main |-> p.table,
        countries |-> c.table]

(***************************************************************************)
(* ETHResearchCollectionAPI (api_client.py): the publication list.         *)
(***************************************************************************)
\* `key in v` for a dict v
HasKey(v, key) == v.kind = "dict" /\ key \in DOMAIN v.val

\* the indexableObject of the wrappers that have one
RECURSIVE Indexables(_, _)
Indexables(ws, i) ==
    IF i > Len(ws) THEN <<>>
    ELSE (IF HasKey(ws[i], "_embedded")
             /\ HasKey(ws[i].val["_embedded"], "indexableObject")
          THEN <<ws[i].val["_embedded"].val["indexableObject"]>>
          ELSE <<>>)
         \o Indexables(ws, i + 1)

\* lines 42-63: the objects of a search response
Objects(data) ==
    LET embedded == Get(data, "_embedded", EmptyDict)
        search_result == Get(embedded, "searchResult", EmptyDict)
    IN IF ~HasKey(search_result, "_embedded")
       THEN [exc |-> "none", objects |-> <<>>]
       ELSE LET objects_wrapper ==
                    Get(search_result.val["_embedded"], "objects", JList(<<>>))
            IN CASE objects_wrapper.kind = "list" ->
                        [exc |-> "none",
                         objects |-> Indexables(objects_wrapper.val, 1)]
                 [] objects_wrapper.kind = "dict" ->
                        IF HasKey(objects_wrapper, "_embedded")
                            /\ HasKey(objects_wrapper.val["_embedded"],
                                      "indexableObject")
                        THEN LET indexable ==
                                    objects_wrapper.val["_embedded"]
                                        .val["indexableObject"]
                             IN [exc |-> "none",
                                 objects |-> IF indexable.kind = "dict"
                                             THEN <<indexable>>
                                             ELSE indexable.val]
                        ELSE [exc |-> "UnboundLocalError", objects |-> <<>>]
                 [] OTHER -> [exc |-> "none", objects |-> <<>>]

\* lines 82-87: the value of a metadata field
FieldValue(metadata, field) ==
    IF HasKey(metadata, field) /\ Truthy(metadata.val[field])
    THEN IF metadata.val[field].kind = "list"
         THEN Get(metadata.val[field].val[1], "value", None)
         ELSE Get(metadata.val[field], "value", None)
    ELSE None

\* lines 76-89: the publication dict of an object
Publication(obj) ==
    LET metadata == Get(obj, "metadata", EmptyDict) IN
    [name |-> Get(obj, "name", EmptyStr),
     uuid |-> Get(obj, "uuid", EmptyStr),
     doi |-> FieldValue(metadata, "dc.identifier.doi"),
     publication_type |-> FieldValue(metadata, "dc.type"),
     date_issued |-> FieldValue(metadata, "dc.date.issued"),
     license |-> FieldValue(metadata, "dc.rights.license")]

\* the years the model's dates start with
YearNumber == ("2005" :> 2005) @@ ("2020" :> 2020)

\* pd.to_numeric(date_issued.str[:4], errors='coerce'); a date is the
\* sequence of its first four characters and the rest
YearOf(date) ==
    IF date.kind = "str" /\ Len(date.val) > 0
        /\ date.val[1] \in DOMAIN YearNumber
    THEN JInt(YearNumber[date.val[1]])
    ELSE None

MinYear == 2010

\* the columns _process_dataframe keeps
column_order ==
    {"name", "doi", "doi_dummy", "publication_type", "publication_type_group",
     "date_issued", "year", "license", "license_short", "license_short_group"}

\* _process_dataframe(df).  The cells of the derived label columns
\* (doi_dummy, publication_type_group, license_short, license_short_group)
\* are not part of the rows of the model.
process_dataframe(df) ==
    IF "date_issued" \notin df.columns
    THEN [exc |-> "KeyError", table |-> NoTable]
    ELSE LET with_year ==
                [i \in 1..Len(df.rows) |->
                    [c \in (DOMAIN df.rows[i] \cup {"year"}) \cap column_order |->
                        IF c = "year" THEN YearOf(df.rows[i].date_issued)
                        ELSE IF c = "license" /\ df.rows[i][c].kind = "null"
                        THEN Str("No license")
                        ELSE df.rows[i][c]]]
         IN [exc |-> "none",
             table |->
                [columns |-> (df.columns \cup
                                {"year", "license_short", "license_short_group",
                                 "publication_type_group", "doi_dummy"})
                             \cap column_order,
                 rows |-> SelectSeq(with_year,
                            LAMBDA r : r.year.kind = "int"
                                       /\ r.year.val > MinYear)]]

\* extract_metadata(data)
extract_metadata(data) ==
    LET o == Objects(data) IN
    IF o.exc # "none" THEN [exc |-> o.exc, table |-> NoTable]
    ELSE process_dataframe(
            DataFrame([i \in 1..Len(o.objects) |-> Publication(o.objects[i])],
                      {"name", "uuid", "doi", "publication_type",
                       "date_issued", "license"}))

\* fetch_and_save: the table returned, or the exception raised by
\* fetch_publications or extract_metadata
fetch_and_save(response) ==
    IF response.kind = "error" THEN [exc |-> response.val, table |-> NoTable]
    ELSE extract_metadata(response)

(***************************************************************************)
(* The dashboard: one script run after the other in one session.  The data *)
(* directory holds what earlier cycles left.                               *)
(***************************************************************************)
MaxTicks == 3

PubNames == <<"A", "B", "C", "D">>

\* a publication of the search response, issued in year (or without a date)
PubObject(i, year) ==
    JDict(("name" :> Str(PubNames[i]))
          @@ ("uuid" :> JStr(<<"uuid-", PubNames[i]>>))
          @@ ("metadata" :>
                IF year = "" THEN EmptyDict
                ELSE JDict("dc.date.issued" :>
                        JList(<<JDict("value" :> JStr(<<year, "-01-01">>))>>))))

SearchResponse(objs) ==
    JDict("_embedded" :> JDict("searchResult" :> JDict("_embedded" :>
        JDict("objects" :>
            JList([i \in 1..Len(objs) |->
                    JDict("_embedded" :>
                        JDict("indexableObject" :> objs[i]))])))))

\* the years of issue of the publications of the group, in the order of the
\* search response ("" for a publication without a date)
PubYears == <<"2020", "2005", "", "2020">>

\* what the publications request of the fetch branch gives: a failure, a
\* body without results, or the first n publications of the group
PubResponses ==
    {RequestFailure, EmptyDict} \cup
    {SearchResponse([i \in 1..n |-> PubObject(i, PubYears[i])]) :
        n \in 0..MaxPubs}

\* the records an earlier cycle fetched
DashRecords ==
    {<<>>} \cup
    {<<WithTitle(extract_statistics(Uuid(1), d).stats, "A")>> :
        d \in FlattenData}

\* the data directories earlier cycles can leave
DashDisks ==
    {EmptyDisk}
    \cup {save_statistics(EmptyDisk, 1, sl) : sl \in DashRecords}
    \cup {save_statistics(save_statistics(EmptyDisk, 1, sl), 2, <<>>) :
            sl \in DashRecords}

DashInit ==
    /\ NormInit /\ SessionInit /\ FetchInit /\ CredInit
    /\ pc = "idle"
    /\ stats_list = <<>>
    /\ df_main = <<>>
    /\ df_monthly = <<>>
    /\ df_countries = <<>>
    /\ views_pivot = <<>>
    /\ downloads_pivot = <<>>
    /\ exc = "none"
    /\ disk \in DashDisks
    /\ fetch_no = 3
    /\ clock = FreshnessWindow
    /\ mtime \in [{"main", "monthly", "countries"} -> {0, FreshnessWindow}]
    /\ source = "none"
    /\ df_publications = NoTable
    /\ pub_file = Absent
    /\ caught = "none"
    /\ memo = NoMemo

\* time passes between two script runs
Tick ==
    /\ pc = "idle"
    /\ clock < FreshnessWindow + MaxTicks * (FreshnessWindow \div 2)
    /\ clock' = clock + FreshnessWindow \div 2
    /\ UNCHANGED <<mtime, source, df_publications, pub_file, caught, memo>>
    /\ UNCHANGED <<nvars, lvars, svars, fvars, cvars>>

\* load_data(group_id) is answered by st.cache_data: the body does not run
LoadMemo ==
    /\ pc = "idle"
    /\ BodyRuns(session)
    /\ MemoValid(memo, clock)
    /\ pc' = "returned"
    /\ source' = "memo"
    /\ views_pivot' = memo.views
    /\ downloads_pivot' = memo.downloads
    /\ df_countries' = memo.countries
    /\ UNCHANGED <<stats_list, df_main, df_monthly, exc, disk, fetch_no>>
    /\ UNCHANGED <<clock, mtime, df_publications, pub_file, caught, memo>>
    /\ UNCHANGED <<nvars, svars, fvars, cvars>>

\* load_data with use_cache: lines 104-129
LoadCached ==
    /\ pc = "idle"
    /\ BodyRuns(session)
    /\ ~MemoValid(memo, clock)
    /\ UseCache(disk, mtime, clock)
    /\ LET r == ReadCache(disk) IN
        IF r.exc = "none"
        THEN /\ pc' = "saved"
             /\ df_monthly' = r.monthly
             /\ df_main' = r.main
             /\ df_countries' = r.countries
             /\ UNCHANGED exc
        ELSE /\ pc' = "raised"
             /\ exc' = r.exc
             /\ UNCHANGED <<df_monthly, df_main, df_countries>>
    /\ source' = "cache"
    /\ UNCHANGED <<stats_list, views_pivot, downloads_pivot, disk, fetch_no>>
    /\ UNCHANGED <<clock, mtime, df_publications, pub_file, caught, memo>>
    /\ UNCHANGED <<nvars, svars, fvars, cvars>>

\* load_data without use_cache: lines 104-123 and the fetch branch up to the
\* call of fetch_multiple_stats, with the handler of lines 163-172
FetchFresh ==
    /\ pc = "idle"
    /\ BodyRuns(session)
    /\ ~MemoValid(memo, clock)
    /\ ~UseCache(disk, mtime, clock)
    /\ \E response \in PubResponses :
        LET r == fetch_and_save(response)
            e == IF r.exc # "none" THEN r.exc
                 ELSE IF "uuid" \notin r.table.columns THEN "KeyError"
                 ELSE IF "name" \notin r.table.columns THEN "KeyError"
                 ELSE "none"
            c == ReadCache(disk)
        IN
        /\ df_publications' = IF r.exc = "none" THEN r.table ELSE df_publications
        /\ pub_file' = IF r.exc = "none" THEN File(fetch_no, r.table)
                       ELSE pub_file
        /\ caught' = e
        /\ IF e = "none"
           THEN /\ pc' = "fetch"
                /\ source' = "fetch"
                /\ uuids' = [i \in 1..Len(r.table.rows) |-> r.table.rows[i].uuid]
                /\ titles' = JList([i \in 1..Len(r.table.rows) |->
                                        r.table.rows[i].name])
                /\ UNCHANGED <<df_monthly, df_main, df_countries, exc>>
           ELSE /\ UNCHANGED <<uuids, titles>>
                /\ IF ~AllExist(disk)
                   THEN /\ pc' = "raised"
                        /\ exc' = "Exception"
                        /\ source' = "failed"
                        /\ UNCHANGED <<df_monthly, df_main, df_countries>>
                   ELSE /\ source' = "fallback"
                        /\ IF c.exc = "none"
                           THEN /\ pc' = "saved"
                                /\ df_monthly' = c.monthly
                                /\ df_main' = c.main
                                /\ df_countries' = c.countries
                                /\ UNCHANGED exc
                           ELSE /\ pc' = "raised"
                                /\ exc' = c.exc
                                /\ UNCHANGED <<df_monthly, df_main, df_countries>>
    /\ UNCHANGED <<stats_list, views_pivot, downloads_pivot, disk, fetch_no>>
    /\ UNCHANGED <<clock, mtime, memo>>
    /\ UNCHANGED <<fpc, fi, in_flight, requests, delays, failed, extracted>>
    /\ UNCHANGED <<nvars, svars, cvars>>

\* the script run ends: load_data returned and the views were drawn, or the
\* exception of load_data was shown
EndRun ==
    /\ pc \in {"returned", "raised"}
    /\ pc' = "idle"
    /\ stats_list' = <<>>
    /\ df_main' = <<>>
    /\ df_monthly' = <<>>
    /\ df_countries' = <<>>
    /\ views_pivot' = <<>>
    /\ downloads_pivot' = <<>>
    /\ exc' = "none"
    /\ source' = "none"
    /\ caught' = "none"
    /\ df_publications' = NoTable
    /\ UNCHANGED <<disk, fetch_no, clock, mtime, pub_file, memo>>
    /\ UNCHANGED <<nvars, svars, fvars, cvars>>

DashNext ==
    Login \/ Logout \/ Tick \/ LoadMemo \/ LoadCached \/ FetchFresh
    \/ LoadDataTail \/ EndRun

SpecDashboard == DashInit /\ [][DashNext]_vars

(***************************************************************************)
(* fetch_multiple_stats step by step, and the save_statistics call that    *)
(* follows it in load_data and fetch_all_statistics.                       *)
(***************************************************************************)
MaxUuids == 3

TitleNames == <<"A", "B", "C", "D", "E">>

\* the titles argument: None, or a list of at most as many titles as uuids
TitlesArgs(n) ==
    {None} \cup {JList([i \in 1..k |-> TitleNames[i]]) : k \in 0..n}

TitleAtShifted(ts, i) ==
    IF Truthy(ts) /\ i < Len(ts.val) THEN ts.val[i + 1] ELSE "Unknown Title"

\* titles[i-1] if titles and i-1 < len(titles) else "Unknown Title"
TitleAt(ts, i) ==
    IF Truthy(ts) /\ i - 1 < Len(ts.val) THEN ts.val[i] ELSE "Unknown Title"

NeedsDelayAlways(i, n) == i <= n

\* line 114: if i < len(uuids)
NeedsDelay(i, n) == i < n

OnInterruptSaves(files, n, sl) == save_statistics(files, n, sl)

\* the files after the KeyboardInterrupt handler of fetch_all_stats.main
OnInterrupt(files, n, sl) == files

\* what the statistics request gives when it does not fail: the body of the
\* response (None is the JSON null; the last one makes extract_statistics
\* raise)
StatsDocs ==
    {None, UsageReport(1, <<Point(Label("March", "2025"), 1)>>),
     JDict("_embedded" :> None)}

StatsInit ==
    /\ NormInit /\ SessionInit /\ CacheInit /\ CredInit
    /\ pc = "fetch"
    /\ stats_list = <<>>
    /\ df_main = <<>>
    /\ df_monthly = <<>>
    /\ df_countries = <<>>
    /\ views_pivot = <<>>
    /\ downloads_pivot = <<>>
    /\ exc = "none"
    /\ disk = EmptyDisk
    /\ fetch_no = 1
    /\ \E n \in 0..MaxUuids :
        /\ uuids = [i \in 1..n |-> Uuid(i)]
        /\ titles \in TitlesArgs(n)
        /\ fpc = IF n = 0 THEN "return" ELSE "top"
        /\ fi = IF n = 0 THEN 0 ELSE 1
    /\ in_flight = 0
    /\ requests = 0
    /\ delays = 0
    /\ failed = {}
    /\ extracted = {}

\* fetch_publication_stats(uuid) sends its request
SendRequest ==
    /\ fpc = "top"
    /\ fpc' = "wait"
    /\ in_flight' = in_flight + 1
    /\ requests' = requests + 1
    /\ UNCHANGED <<uuids, titles, fi, delays, failed, extracted>>
    /\ UNCHANGED <<nvars, lvars, svars, dvars, cvars>>

\* the request ends (fetch_publication_stats returns the body, or None after
\* a RequestException), extract_statistics is called on what it returned and
\* the record is appended
ReceiveAndExtract ==
    /\ fpc = "wait"
    /\ \E ok \in BOOLEAN, doc \in StatsDocs :
        LET data == IF ok THEN doc ELSE None
            r == extract_statistics(uuids[fi], data)
        IN
        /\ ~ok => doc = None
        /\ failed' = IF ok THEN failed ELSE failed \cup {fi}
        /\ extracted' = extracted \cup {fi}
        /\ IF r.exc = "none"
           THEN /\ stats_list' =
                     Append(stats_list, WithTitle(r.stats, TitleAt(titles, fi)))
                /\ fpc' = IF NeedsDelay(fi, Len(uuids)) THEN "sleep" ELSE "return"
                /\ UNCHANGED exc
           ELSE /\ fpc' = "raised"
                /\ exc' = r.exc
                /\ UNCHANGED stats_list
    /\ in_flight' = in_flight - 1
    /\ UNCHANGED <<uuids, titles, fi, requests, delays>>
    /\ UNCHANGED <<pc, df_main, df_monthly, df_countries, views_pivot,
                   downloads_pivot, disk, fetch_no>>
    /\ UNCHANGED <<nvars, svars, dvars, cvars>>

\* time.sleep(delay), then the next iteration of the for loop, or its end
Sleep ==
    /\ fpc = "sleep"
    /\ delays' = delays + 1
    /\ IF fi < Len(uuids)
       THEN fpc' = "top" /\ fi' = fi + 1
       ELSE fpc' = "return" /\ UNCHANGED fi
    /\ UNCHANGED <<uuids, titles, in_flight, requests, failed, extracted>>
    /\ UNCHANGED <<nvars, lvars, svars, dvars, cvars>>

\* fetch_multiple_stats returns and the caller saves the statistics
SaveAll ==
    /\ fpc = "return"
    /\ fpc' = "done"
    /\ pc' = "saved"
    /\ df_main' = process_to_dataframes(stats_list).main
    /\ df_monthly' = process_to_dataframes(stats_list).monthly
    /\ df_countries' = process_to_dataframes(stats_list).countries
    /\ disk' = save_statistics(disk, fetch_no, stats_list)
    /\ UNCHANGED <<stats_list, views_pivot, downloads_pivot, exc, fetch_no>>
    /\ UNCHANGED <<uuids, titles, fi, in_flight, requests, delays, failed,
                   extracted>>
    /\ UNCHANGED <<nvars, svars, dvars, cvars>>

\* Ctrl-C while the loop waits for a response or sleeps: KeyboardInterrupt
\* leaves fetch_multiple_stats and its callers
Interrupt ==
    /\ fpc \in {"wait", "sleep"}
    /\ fpc' = "interrupted"
    /\ exc' = "KeyboardInterrupt"
    /\ in_flight' = 0
    /\ disk' = OnInterrupt(disk, fetch_no, stats_list)
    /\ UNCHANGED <<pc, stats_list, df_main, df_monthly, df_countries,
                   views_pivot, downloads_pivot, fetch_no>>
    /\ UNCHANGED <<uuids, titles, fi, requests, delays, failed, extracted>>
    /\ UNCHANGED <<nvars, svars, dvars, cvars>>

StatsNext == SendRequest \/ ReceiveAndExtract \/ Sleep \/ SaveAll \/ Interrupt

SpecFetch == StatsInit /\ [][StatsNext]_vars

(***************************************************************************)
(* CredentialManager (setup_credentials.py), with the cryptography library *)
(* installed.  A str is the sequence of its characters, bytes the sequence *)
(* of their codes.                                                         *)
(***************************************************************************)
MaxCredLen == 2

CredChars == {"a", "1", "|"}

CredStrings == {JStr(cs) : cs \in SeqsUpTo(CredChars, MaxCredLen)}

\* str.encode() / bytes.decode() on the characters of the model
ByteOf == ("a" :> 97) @@ ("1" :> 49) @@ ("|" :> 124)

Encode(cs) == [i \in 1..Len(cs) |-> ByteOf[cs[i]]]

Decode(bs) ==
    [i \in 1..Len(bs) |-> CHOOSE c \in DOMAIN ByteOf : ByteOf[c] = bs[i]]

\* the keys Fernet.generate_key() can give
FernetKeys == {"k1", "k2"}

\* Fernet(key).encrypt(data): a token only the same key opens
FernetEncrypt(key, data) == [key |-> key, data |-> data]

\* Fernet(key).decrypt(token)
FernetDecrypt(key, token) ==
    IF token.key = key THEN [exc |-> "none", data |-> token.data]
    ELSE [exc |-> "InvalidToken", data |-> <<>>]

\* s.split('|'): the parts of s between the bars
RECURSIVE SplitBar(_, _, _)
SplitBar(cs, i, part) ==
    IF i > Len(cs) THEN <<part>>
    ELSE IF cs[i] = "|" THEN <<part>> \o SplitBar(cs, i + 1, <<>>)
    ELSE SplitBar(cs, i + 1, Append(part, cs[i]))

\* generate_encryption_key(): the key of the key file, or a new one
generate_encryption_key(file, new) ==
    IF file # Absent THEN file.table ELSE new

\* the token encrypt_credentials(api_key, group_id) writes
encrypt_credentials(key, api_key, group_id) ==
    FernetEncrypt(key, Encode(api_key.val \o <<"|">> \o group_id.val))

\* decrypt_credentials(): the pair returned, or the exception raised
decrypt_credentials(key, file) ==
    IF file = Absent
    THEN [called |-> TRUE, exc |-> "none", api_key |-> None, group_id |-> None]
    ELSE LET d == FernetDecrypt(key, file.table)
             parts == SplitBar(Decode(d.data), 1, <<>>)
         IN IF d.exc # "none"
            THEN [called |-> TRUE, exc |-> d.exc, api_key |-> None,
                  group_id |-> None]
            ELSE IF Len(parts) # 2
            THEN [called |-> TRUE, exc |-> "ValueError", api_key |-> None,
                  group_id |-> None]
            ELSE [called |-> TRUE, exc |-> "none", api_key |-> JStr(parts[1]),
                  group_id |-> JStr(parts[2])]

CredentialsInit ==
    /\ NormInit /\ LoadInit /\ SessionInit /\ CacheInit /\ FetchInit
    /\ key_file \in {Absent} \cup {File(1, k) : k \in FernetKeys}
    /\ encrypted_file = Absent
    /\ decrypted = NotDecrypted
    /\ credentials = <<None, None>>

EncryptCredentials ==
    /\ \E api_key \in CredStrings, group_id \in CredStrings, new \in FernetKeys :
        LET key == generate_encryption_key(key_file, new) IN
        /\ key_file' = File(1, key)
        /\ encrypted_file' = File(1, encrypt_credentials(key, api_key, group_id))
        /\ credentials' = <<api_key, group_id>>
    /\ decrypted' = NotDecrypted
    /\ UNCHANGED <<nvars, lvars, svars, dvars, fvars>>

DecryptCredentials ==
    /\ ~decrypted.called
    /\ \E new \in FernetKeys :
        LET key == generate_encryption_key(key_file, new) IN
        /\ key_file' = File(1, key)
        /\ decrypted' = decrypt_credentials(key, encrypted_file)
    /\ UNCHANGED <<encrypted_file, credentials>>
    /\ UNCHANGED <<nvars, lvars, svars, dvars, fvars>>

CredentialsNext == EncryptCredentials \/ DecryptCredentials

SpecCredentials == CredentialsInit /\ [][CredentialsNext]_vars

LoadNext == FetchOne \/ SaveStatistics \/ LoadDataTail

SpecLoad == Init /\ [][LoadNext]_vars

LabelNext == FetchOneLabel \/ SaveStatistics \/ LoadDataTail

SpecLabels == Init /\ [][LabelNext]_vars

FlattenNext == FetchOneFlat \/ SaveStatistics \/ LoadDataTail

SpecFlatten == Init /\ [][FlattenNext]_vars

SignedNext == FetchOneSigned \/ SaveStatistics \/ LoadDataTail

SpecSigned == Init /\ [][SignedNext]_vars

CacheNext == FetchOneCycle \/ SaveStatistics \/ LoadDataTail \/ Refetch

SpecCache == Init /\ [][CacheNext]_vars

NormNext == NormStart \/ NormIter \/ NormReturn

SpecNorm == Init /\ [][NormNext]_vars

SpecExtract == Init /\ [][ExtractCall]_vars

SpecCountries == Init /\ [][ExtractCountries]_vars

(***************************************************************************)
(* Claims on extract_statistics.                                           *)
(***************************************************************************)
IsNonNegInt(v) == v.kind = "int" /\ v.val >= 0

StatsNonNeg(stats) ==
    /\ stats.total_downloads >= 0
    /\ IsNonNegInt(stats.total_visits)
    /\ \A i \in 1..Len(stats.monthly_visits) :
            IsNonNegInt(stats.monthly_visits[i].visits)
    /\ \A i \in 1..Len(stats.top_countries) :
            stats.top_countries[i].visits >= 0

\* C4: extract_statistics never raises, whatever the shape of its input.
C4_NeverRaises == npc # "raised"

NotNegative(v) == v.kind = "int" => v.val >= 0

\* C5 (as claimed): every record returned by extract_statistics, for every
\* raw report, has no negative total_downloads, total_visits or visits field.
C5_ReturnedNonNeg ==
    npc = "returned" =>
        /\ nstats.total_downloads >= 0
        /\ NotNegative(nstats.total_visits)
        /\ \A i \in 1..Len(nstats.monthly_visits) :
                NotNegative(nstats.monthly_visits[i].visits)
        /\ \A i \in 1..Len(nstats.top_countries) :
                nstats.top_countries[i].visits >= 0

\* C5 (amended): when every 'views' value of the raw report is an int >= 0,
\* the record built by extract_statistics has total_downloads, total_visits
\* and every visits field >= 0.
C5_NonNegFromNonNegViews == ninputOk => StatsNonNeg(nstats)

C5_Witness ==
    /\ npc = "returned"
    /\ ninputOk
    /\ nstats.total_downloads > 0
    /\ Len(nstats.monthly_visits) > 0
    /\ Len(nstats.top_countries) > 0
    /\ nstats.top_countries[1].visits > 0

(***************************************************************************)
(* Claims on load_data.                                                    *)
(***************************************************************************)
Items == DOMAIN views_pivot.rows

TotalViews(item) == RSum(views_pivot.rows[item], 1)

AllViewsZero(item) ==
    \A j \in 1..Len(views_pivot.axis) : views_pivot.rows[item][j] = RInt(0)

\* C1: for every item whose monthly visits sum to V > 0, the estimated
\* monthly downloads sum to the item's total_downloads.
C1_DownloadsSumToTotal ==
    pc = "returned" =>
        \A item \in Items :
            TotalViews(item)[1] > 0 =>
                ISum(downloads_pivot.rows[item], 1) = TotalDownloadsOf(df_main, item)

\* C2: for every item with V > 0 and every month i, d_i * V = v_i * total_downloads.
C2_DownloadsProportional ==
    pc = "returned" =>
        \A item \in Items :
            TotalViews(item)[1] > 0 =>
                \A j \in 1..Len(views_pivot.axis) :
                    RMulInt(TotalViews(item), downloads_pivot.rows[item][j])
                        = RMulInt(views_pivot.rows[item][j],
                                  TotalDownloadsOf(df_main, item))

\* C3: a row whose monthly visits are all 0 has an estimated download count
\* of 0 in every month, whatever its total_downloads is.
C3_ZeroVisitsZeroDownloads ==
    pc = "returned" =>
        \A item \in Items :
            AllViewsZero(item) =>
                \A j \in 1..Len(downloads_pivot.axis) :
                    downloads_pivot.rows[item][j] = 0

C3_Witness ==
    /\ pc = "returned"
    /\ \E item \in Items :
        /\ AllViewsZero(item)
        /\ Len(downloads_pivot.axis) > 1
        /\ TotalDownloadsOf(df_main, item) > 0
        /\ \A j \in 1..Len(downloads_pivot.axis) :
                downloads_pivot.rows[item][j] = 0

UuidsWithMonthlyData == {df_monthly.rows[i].uuid : i \in 1..Len(df_monthly.rows)}

\* C6: the downloads table has one series per publication (uuid) that has
\* monthly data; two publications are never merged into one row.
C6_OneRowPerPublication ==
    pc = "returned" =>
        Cardinality(DOMAIN downloads_pivot.rows) = Cardinality(UuidsWithMonthlyData)

\* C7: a publication of the totals table without rows in the monthly table
\* appears in the downloads table, with 0 in every month of the axis.
C7_NoMonthlyRowsZeroFilled ==
    pc = "returned" =>
        \A i \in 1..Len(df_main.rows) :
            df_main.rows[i].uuid \notin UuidsWithMonthlyData =>
                /\ df_main.rows[i].title \in DOMAIN downloads_pivot.rows
                /\ \A j \in 1..Len(downloads_pivot.axis) :
                        downloads_pivot.rows[df_main.rows[i].title][j] = 0

\* C8: an empty sequence of usage records gives empty tables and load_data
\* raises no error on them.
C8_EmptyInputNoError ==
    (stats_list = <<>> /\ pc # "fetch") =>
        /\ df_main.rows = <<>> /\ df_monthly.rows = <<>> /\ df_countries.rows = <<>>
        /\ pc # "raised"

YearValue == [y \in {"2025", "2026"} |-> IF y = "2025" THEN 2025 ELSE 2026]

MonthValue(mm) == CHOOSE n \in 1..12 : TokenOrder[n] = mm

\* the position of a month key in the calendar
Chrono(key) == YearValue[key[1]] * 12 + MonthValue(key[2])

\* the month keys a record reports, one per monthly_visits entry
ReportedKeys(stats) ==
    [j \in 1..Len(stats.monthly_visits) |-> MonthYear(stats.monthly_visits[j].month).key]

ReportsEachMonthOnce(stats) ==
    \A j, k \in 1..Len(stats.monthly_visits) :
        j # k => ReportedKeys(stats)[j] # ReportedKeys(stats)[k]

\* C9: the axis is in chronological order and the aligned series of every
\* publication (that reports each month once) holds, for each axis month,
\* the visits the source reported for it, and 0 for a month it did not report.
C9_AlignedSeries ==
    pc = "returned" =>
        /\ \A j, k \in 1..Len(views_pivot.axis) :
                j < k => Chrono(views_pivot.axis[j]) < Chrono(views_pivot.axis[k])
        /\ \A i \in 1..Len(stats_list) :
            (stats_list[i].monthly_visits # <<>> /\ ReportsEachMonthOnce(stats_list[i])) =>
                /\ stats_list[i].title \in Items
                /\ \A j \in 1..Len(views_pivot.axis) :
                    LET at == {k \in 1..Len(stats_list[i].monthly_visits) :
                                ReportedKeys(stats_list[i])[k] = views_pivot.axis[j]}
                    IN views_pivot.rows[stats_list[i].title][j] =
                        IF at = {} THEN RInt(0)
                        ELSE RInt(stats_list[i].monthly_visits[CHOOSE k \in at : TRUE].visits.val)

IsYear(word) == word \in {"2025", "2026"}

\* an English month name followed by a four-digit year
WellFormedLabel(x) ==
    /\ x.kind = "str"
    /\ Len(Split(x)) = 2
    /\ Split(x)[1] \in DOMAIN month_map
    /\ IsYear(Split(x)[2])

\* C10: when some month label is not a month name followed by a four-digit
\* year, load_data fails with an error; no such row reaches the month axis.
C10_MalformedLabelFails ==
    (pc \in {"returned", "raised"}
        /\ \E i \in 1..Len(df_monthly.rows) : ~WellFormedLabel(df_monthly.rows[i].month))
    => pc = "raised"

(***************************************************************************)
(* Claims on the sections of one document (SpecExtract).                   *)
(***************************************************************************)
\* the sections of the document the call was made with
DocSections ==
    IF ndata.kind = "dict" THEN ndata.val["_embedded"].val["usagereports"].val
    ELSE <<>>

OfType(t) ==
    {i \in 1..Len(DocSections) : DocSections[i].val["report-type"] = Str(t)}

LastOfType(t) == CHOOSE i \in OfType(t) : \A j \in OfType(t) : j <= i

PointsOf(i) == DocSections[i].val["points"].val

\* the count a point carries; a point without a value counts as 0
PointValue(p) ==
    IF "values" \in DOMAIN p.val /\ "views" \in DOMAIN p.val["values"].val
    THEN p.val["values"].val["views"].val
    ELSE 0

PointValues(pts) == [k \in 1..Len(pts) |-> PointValue(pts[k])]

\* the points of all sections of type t, in source order
RECURSIVE TypePoints(_, _)
TypePoints(t, i) ==
    IF i > Len(DocSections) THEN <<>>
    ELSE (IF i \in OfType(t) THEN PointsOf(i) ELSE <<>>) \o TypePoints(t, i + 1)

\* C12: for a TopCountries section the record has one entry per point, in
\* source order, with the point's code, name and visits; its percentage is
\* the point's visits over the sum of the visits of this section, times 100
\* (to the two decimals the record keeps), and 0 when that sum is 0.
C12_CountryPercentages ==
    (npc = "returned" /\ OfType("TopCountries") # {}) =>
        LET pts == PointsOf(LastOfType("TopCountries"))
            V == ISum(PointValues(pts), 1)
        IN /\ Len(nstats.top_countries) = Len(pts)
           /\ \A k \in 1..Len(pts) :
                LET e == nstats.top_countries[k] IN
                /\ e.country_code = pts[k].val["id"]
                /\ e.country = pts[k].val["label"]
                /\ e.visits = PointValue(pts[k])
                /\ IF V = 0 THEN e.percentage = 0
                   ELSE 2 * Abs(e.percentage * V - 10000 * e.visits) <= V

C12_Witness ==
    /\ npc = "returned"
    /\ OfType("TopCountries") # {}
    /\ OfType("TotalVisits") # {}
    /\ nstats.total_visits = JInt(1)
    /\ Len(nstats.top_countries) = 2
    /\ nstats.top_countries[1].country_code = Str("US")
    /\ nstats.top_countries[1].percentage = 6667
    /\ nstats.top_countries[2].country_code = Str("CH")
    /\ nstats.top_countries[2].percentage = 3333

\* C13: total_downloads is the sum of the 'views' values of all points of
\* the TotalDownloads section(s); a point without a value counts as 0.
C13_DownloadsSummed ==
    (npc = "returned" /\ OfType("TotalDownloads") # {}) =>
        nstats.total_downloads =
            ISum(PointValues(TypePoints("TotalDownloads", 1)), 1)

C13_Witness ==
    /\ npc = "returned"
    /\ Cardinality(OfType("TotalDownloads")) = 1
    /\ LET pts == PointsOf(LastOfType("TotalDownloads")) IN
        /\ Len(pts) = 2
        /\ PointValue(pts[1]) = 2
        /\ "values" \notin DOMAIN pts[2].val
    /\ nstats.total_downloads = 2

\* C14: total_visits is the value of the last point, in source order, of the
\* TotalVisits section (overwrite, not sum).
C14_LastVisitsWins ==
    (npc = "returned" /\ TypePoints("TotalVisits", 1) # <<>>) =>
        LET pts == TypePoints("TotalVisits", 1) IN
        nstats.total_visits = Get(Get(pts[Len(pts)], "values", EmptyDict),
                                  "views", JInt(0))

C14_Witness ==
    /\ npc = "returned"
    /\ Cardinality(OfType("TotalVisits")) = 1
    /\ LET pts == PointsOf(LastOfType("TotalVisits")) IN
        /\ Len(pts) = 2
        /\ PointValue(pts[1]) = 2
        /\ PointValue(pts[2]) = 1
    /\ nstats.total_visits = JInt(1)

\* C15: a field whose section is absent from the document keeps its zero or
\* empty default, whatever the sections that are present hold.
C15_MissingSectionsDefault ==
    npc = "returned" =>
        /\ OfType("TotalDownloads") = {} => nstats.total_downloads = 0
        /\ OfType("TotalVisits") = {} => nstats.total_visits = JInt(0)
        /\ OfType("TotalVisitsPerMonth") = {} => nstats.monthly_visits = <<>>
        /\ OfType("TopCountries") = {} => nstats.top_countries = <<>>

C15_Witness ==
    /\ npc = "returned"
    /\ Len(DocSections) = 1
    /\ OfType("TotalDownloads") = {1}
    /\ nstats.total_downloads = 2
    /\ nstats.total_visits = JInt(0)
    /\ nstats.monthly_visits = <<>>
    /\ nstats.top_countries = <<>>

\* C16: for a TotalVisitsPerMonth section monthly_visits has exactly one
\* (month label, visits) entry per point, in the order of the points.
C16_MonthlyInSourceOrder ==
    (npc = "returned" /\ OfType("TotalVisitsPerMonth") # {}) =>
        LET pts == PointsOf(LastOfType("TotalVisitsPerMonth")) IN
        /\ Len(nstats.monthly_visits) = Len(pts)
        /\ \A k \in 1..Len(pts) :
            /\ nstats.monthly_visits[k].month = pts[k].val["label"]
            /\ nstats.monthly_visits[k].visits = JInt(PointValue(pts[k]))

C16_Witness ==
    /\ npc = "returned"
    /\ Len(nstats.monthly_visits) = 2
    /\ nstats.monthly_visits[1] =
            [month |-> JStr(<<"May", " ", "2025">>), visits |-> JInt(1)]
    /\ nstats.monthly_visits[2] =
            [month |-> JStr(<<"March", " ", "2025">>), visits |-> JInt(2)]

(***************************************************************************)
(* Claims on long country lists (SpecCountries).  Percentages are in       *)
(* hundredths of a percent: 100 is 10000 and the tolerance 0.1 is 10.      *)
(***************************************************************************)
CountryVisitsSum ==
    ISum([k \in 1..Len(nstats.top_countries) |-> nstats.top_countries[k].visits], 1)

PercentageSum ==
    ISum([k \in 1..Len(nstats.top_countries) |-> nstats.top_countries[k].percentage], 1)

\* C11 (as claimed): for every record with a non-empty country list whose
\* visits sum to V_c > 0, the percentages sum to 100 within 0.1, for any
\* number of countries.
C11_PercentagesSumTo100 ==
    (npc = "returned" /\ nstats.top_countries # <<>> /\ CountryVisitsSum > 0) =>
        Abs(PercentageSum - 10000) <= 10

\* C11 (amended): for every record with one to 20 countries whose visits sum
\* to V_c > 0, the percentages sum to 100 within 0.1.
C11_PercentagesSumUpTo20 ==
    (npc = "returned" /\ nstats.top_countries # <<>> /\ CountryVisitsSum > 0
        /\ Len(nstats.top_countries) <= 20) =>
        Abs(PercentageSum - 10000) <= 10

C11_Witness ==
    /\ npc = "returned"
    /\ Len(nstats.top_countries) = 20
    /\ CountryVisitsSum > 0
    /\ PercentageSum # 10000
    /\ Abs(PercentageSum - 10000) <= 10

(***************************************************************************)
(* Claims on process_to_dataframes (SpecFlatten).                          *)
(***************************************************************************)
\* the rows of a table that carry the uuid, in the order of the table
RowsOf(table, uuid) == SelectSeq(table.rows, LAMBDA r : r.uuid = uuid)

TotalEntries(field(_)) ==
    ISum([i \in 1..Len(stats_list) |-> Len(field(stats_list[i]))], 1)

\* C17: the publication table has one row per record; the monthly table has
\* one row per monthly_visits entry and the country table one row per
\* top_countries entry, each tagged with the uuid and title of its record;
\* num_months_with_data and num_countries count the record's rows there.
C17_FlatteningOneToMany ==
    pc # "fetch" =>
        /\ Len(df_main.rows) = Len(stats_list)
        /\ Len(df_monthly.rows) = TotalEntries(LAMBDA r : r.monthly_visits)
        /\ Len(df_countries.rows) = TotalEntries(LAMBDA r : r.top_countries)
        /\ \A i \in 1..Len(stats_list) :
            LET r == stats_list[i]
                months == RowsOf(df_monthly, r.uuid)
                countries == RowsOf(df_countries, r.uuid)
            IN /\ df_main.rows[i].uuid = r.uuid
               /\ df_main.rows[i].title = r.title
               /\ df_main.rows[i].total_downloads = r.total_downloads
               /\ df_main.rows[i].total_visits = r.total_visits
               /\ df_main.rows[i].num_months_with_data = Len(months)
               /\ df_main.rows[i].num_countries = Len(countries)
               /\ Len(months) = Len(r.monthly_visits)
               /\ \A k \in 1..Len(months) :
                    /\ months[k].title = r.title
                    /\ months[k].month = r.monthly_visits[k].month
                    /\ months[k].visits = r.monthly_visits[k].visits
               /\ Len(countries) = Len(r.top_countries)
               /\ \A k \in 1..Len(countries) :
                    /\ countries[k].title = r.title
                    /\ countries[k].country_code = r.top_countries[k].country_code
                    /\ countries[k].country = r.top_countries[k].country
                    /\ countries[k].visits = r.top_countries[k].visits

C17_Witness ==
    /\ pc = "saved"
    /\ Len(stats_list) = 2
    /\ Len(df_main.rows) = 2
    /\ df_main.rows[1].num_months_with_data = 2
    /\ df_main.rows[1].num_countries = 1
    /\ df_main.rows[2].num_months_with_data = 1
    /\ df_main.rows[2].num_countries = 2
    /\ df_main.rows[1].title = df_main.rows[2].title
    /\ Len(df_monthly.rows) = 3
    /\ Len(df_countries.rows) = 3

(***************************************************************************)
(* Claims on the sign of the estimated downloads (SpecSigned).             *)
(***************************************************************************)
\* C18 (as claimed): every estimated monthly download is >= 0, for every
\* publication and month.
C18_DownloadsNonNegative ==
    pc = "returned" =>
        \A item \in Items :
            \A j \in 1..Len(downloads_pivot.axis) :
                downloads_pivot.rows[item][j] >= 0

\* C18 (amended): for every item whose total_downloads is >= 0 and whose
\* monthly visits are all >= 0, every estimated monthly download is >= 0.
C18_NonNegFromNonNegInputs ==
    pc = "returned" =>
        \A item \in Items :
            (/\ TotalDownloadsOf(df_main, item) >= 0
             /\ \A j \in 1..Len(views_pivot.axis) : views_pivot.rows[item][j][1] >= 0)
            => \A j \in 1..Len(downloads_pivot.axis) :
                    downloads_pivot.rows[item][j] >= 0

C18_Witness ==
    /\ pc = "returned"
    /\ \E item \in Items :
        /\ TotalDownloadsOf(df_main, item) > 0
        /\ Len(views_pivot.axis) = 2
        /\ \A j \in 1..Len(views_pivot.axis) : views_pivot.rows[item][j][1] >= 0
        /\ downloads_pivot.rows[item][1] > 0
        /\ downloads_pivot.rows[item][2] = 0
        /\ views_pivot.rows[item][2][1] > 0

(***************************************************************************)
(* Claims on the cache files (SpecCache).                                  *)
(***************************************************************************)
CacheFiles == {"main", "monthly", "countries"}

\* C20: after save_statistics has returned, every cache file on disk (the
\* totals, the monthly and the country table) was written by this same
\* fetch; no file of an earlier fetch remains among them.
C20_FetchReplacesCache ==
    pc \in {"saved", "returned", "raised"} =>
        \A f \in CacheFiles : disk[f] # Absent => disk[f].fetch = fetch_no

(***************************************************************************)
(* Claims on the dashboard session and its cache check (SpecDashboard).    *)
(***************************************************************************)
\* file f exists and is not older than the freshness window
FreshFile(f) == disk[f] # Absent /\ clock - mtime[f] <= FreshnessWindow

\* C23: a running load_data serves the cached tables without contacting the
\* upstream source exactly when all three cache files of the group exist
\* and none of them is older than the freshness window of 3600 s; if a file
\* is missing or older, the upstream source is contacted (a refetch).
C23_CacheOnlyWhenFresh ==
    pc # "idle" =>
        /\ source \in {"memo", "cache", "fetch", "fallback", "failed"}
        /\ source \in {"memo", "cache"} <=> \A f \in CacheFiles : FreshFile(f)

\* C26: when fetch_and_save returns publication rows, the table has the
\* 'uuid' column next to the name, and load_data goes on to the statistics
\* fetch without falling into its error path.
C26_UuidColumnReturned ==
    df_publications.rows # <<>> =>
        /\ {"uuid", "name"} \subseteq df_publications.columns
        /\ caught = "none"
        /\ source = "fetch"

FiveDigits(g) ==
    /\ g.kind = "str"
    /\ Len(g.val) = 5
    /\ \A i \in 1..5 :
        g.val[i] \in {"0", "1", "2", "3", "4", "5", "6", "7", "8", "9"}

\* C27: load_data and the views run only while session.authenticated is
\* true, and the flag is true only after authenticate_user has accepted a
\* non-empty API key, a group id of exactly 5 digits and a test fetch that
\* succeeded with a non-empty result.
C27_BodyOnlyAuthenticated ==
    /\ pc # "idle" => session.authenticated
    /\ session.authenticated =>
        /\ last_event = "login_ok"
        /\ last_login.api_key.kind = "str"
        /\ Len(last_login.api_key.val) > 0
        /\ FiveDigits(last_login.group_id)
        /\ last_login.test_data.kind = "dict"
        /\ DOMAIN last_login.test_data.val # {}

C27_Witness ==
    /\ pc = "returned"
    /\ session.authenticated
    /\ last_event = "login_ok"

\* C28: while session.authenticated is true, api_key and group_id are set
\* and are the credentials of the last successful login; a failed login
\* leaves the three session fields as they were and a logout resets them.
C28_SessionFields ==
    /\ session.authenticated =>
        /\ last_event = "login_ok"
        /\ session.api_key.kind = "str"
        /\ session.group_id.kind = "str"
        /\ session.api_key = last_login.api_key
        /\ session.group_id = last_login.group_id
    /\ last_event = "login_failed" => session = prev_session
    /\ last_event = "logout" =>
        /\ prev_session.authenticated
        /\ ~session.authenticated
        /\ session.api_key.kind = "null"
        /\ session.group_id.kind = "null"

C28_Witness ==
    /\ last_event = "login_failed"
    /\ prev_session.api_key.kind = "null"
    /\ last_login.api_key = Str("key1")

(***************************************************************************)
(* Claims on the statistics fetch loop (SpecFetch).                        *)
(***************************************************************************)
\* C21: once a request of the fetch cycle has failed in transport, the
\* cycle does not complete with tables built from it and none of the cache
\* files is written: the cycle ends in the cache fallback or in an error.
C21_TransportFailureNotPersisted ==
    failed # {} =>
        /\ fpc # "done"
        /\ \A f \in CacheFiles : disk[f] = Absent

\* C22: extract_statistics is never invoked for a publication whose
\* fetch_publication_stats call failed.
C22_NoExtractAfterFailedFetch == failed \cap extracted = {}

\* C24: the requests are sent one after the other: at most one request is
\* in flight, request i is sent after i - 1 answers and i - 1 delays, and a
\* loop that ran to its end over n uuids has slept n - 1 times (0 times for
\* no uuid), never after the last request.
C24_SequentialWithDelays ==
    /\ in_flight \in {0, 1}
    /\ fpc = "wait" =>
        /\ in_flight = 1
        /\ requests = fi
        /\ delays = fi - 1
        /\ Cardinality(extracted) = fi - 1
    /\ fpc # "wait" => in_flight = 0
    /\ fpc \in {"return", "done"} =>
        /\ requests = Len(uuids)
        /\ delays = IF Len(uuids) = 0 THEN 0 ELSE Len(uuids) - 1

C24_Witness ==
    /\ fpc = "done"
    /\ Len(uuids) = MaxUuids
    /\ delays = MaxUuids - 1

GivenTitle(i) ==
    IF titles.kind = "list" /\ i <= Len(titles.val) THEN titles.val[i]
    ELSE "Unknown Title"

\* C29: when fetch_multiple_stats returns, the list has one record per input
\* uuid, in input order; record i carries uuid i and the title given for it,
\* or 'Unknown Title' when none was given, whether or not fetch i succeeded.
C29_OneRecordPerUuid ==
    fpc \in {"return", "done"} =>
        /\ Len(stats_list) = Len(uuids)
        /\ \A i \in 1..Len(uuids) :
            /\ stats_list[i].uuid = uuids[i]
            /\ stats_list[i].title = GivenTitle(i)

C29_Witness ==
    /\ fpc = "done"
    /\ Len(uuids) = 3
    /\ titles.kind = "list"
    /\ Len(titles.val) = 2
    /\ failed = {2}
    /\ stats_list[3].title = "Unknown Title"
    /\ stats_list[1].total_downloads # 0
    /\ stats_list[2].total_downloads = 0

(***************************************************************************)
(* Claims on the stored credentials (SpecCredentials).                     *)
(***************************************************************************)
\* C30: decrypt_credentials called after encrypt_credentials(api_key,
\* group_id) returns exactly the pair (api_key, group_id), for every API
\* key string and group id string.
C30_CredentialRoundTrip ==
    (decrypted.called /\ encrypted_file # Absent) =>
        /\ decrypted.exc = "none"
        /\ decrypted.api_key = credentials[1]
        /\ decrypted.group_id = credentials[2]


====
